---- MODULE Spec2Model ----
(***************************************************************************)
(* Model of api/index.py: the document question-answering endpoint         *)
(* POST /hackrx/run and the pure text functions it uses.                   *)
(*                                                                         *)
(* Text is a sequence of atoms.  An atom is a run of n copies of one       *)
(* character of a class: "nl" (a newline), "sp" (a blank), "lc" (a lower-  *)
(* case letter), "uc" (an upper-case letter) or "pt" (one of . ! ?).       *)
(* Whitespace atoms always have n = 1, so that the paragraph separator     *)
(* '\n\n' is two adjacent "nl" atoms; a letter run stands for n characters *)
(* and lets a paragraph reach the 100-character threshold of               *)
(* split_text_into_clauses with a short sequence.                          *)
(***************************************************************************)
EXTENDS Integers, Sequences, FiniteSets, TLC

(***************************************************************************)
(* Program constants                                                       *)
(***************************************************************************)
MinClauseLen == 100
IdPadWidth == 3
BatchSize == 100
SemaphoreLimit == 3
TopK == 8

(***************************************************************************)
(* Bounds of the model                                                     *)
(***************************************************************************)
MaxAtoms == 7
MaxQuestions == 4
\* the requests one process serves in a row, and the questions of each
MaxRequests == 2
MaxSeqQuestions == 1
\* the atoms of a text given to clean_pdf_text on its own
MaxCleanAtoms == 5

(***************************************************************************)
(* Text                                                                    *)
(***************************************************************************)
NL == [cls |-> "nl", n |-> 1]
SP == [cls |-> "sp", n |-> 1]
Letters(k) == [cls |-> "lc", n |-> k]
Cap == [cls |-> "uc", n |-> 1]
Dot == [cls |-> "pt", n |-> 1]

IsSpace(a) == a.cls \in {"nl", "sp"}

\* len(s): the number of characters of s
RECURSIVE StrLen(_)
StrLen(s) == IF s = <<>> THEN 0 ELSE Head(s).n + StrLen(Tail(s))

\* s.strip(): s without its leading and trailing whitespace
RECURSIVE LStrip(_)
LStrip(s) ==
    IF s = <<>> THEN <<>>
    ELSE IF IsSpace(Head(s)) THEN LStrip(Tail(s)) ELSE s

RECURSIVE RStrip(_)
RStrip(s) ==
    IF s = <<>> THEN <<>>
    ELSE IF IsSpace(s[Len(s)]) THEN RStrip(SubSeq(s, 1, Len(s) - 1)) ELSE s

Strip(s) == RStrip(LStrip(s))

\* the k-th smallest element of a finite set of integers
Nth(S, k) == CHOOSE x \in S : Cardinality({y \in S : y < x}) = k - 1

\* the positions where s.split('\n\n') finds a separator: scanning left to
\* right without overlap, a run of newlines that starts at a holds separators
\* at a, a + 2, ... as long as two newlines are left
BreakStarts(s) ==
    {i \in 1..(Len(s) - 1) :
        /\ s[i].cls = "nl" /\ s[i + 1].cls = "nl"
        /\ LET a == CHOOSE j \in 1..i :
                      /\ \A m \in j..i : s[m].cls = "nl"
                      /\ (j = 1 \/ s[j - 1].cls # "nl")
           IN (i - a) % 2 = 0}

\* s.split('\n\n'): the pieces before, between and after the separators
SplitParagraphs(s) ==
    LET B == BreakStarts(s)
        from(k) == IF k = 1 THEN 1 ELSE Nth(B, k - 1) + 2
        to(k) == IF k = Cardinality(B) + 1 THEN Len(s) ELSE Nth(B, k) - 1
    IN [k \in 1..(Cardinality(B) + 1) |-> SubSeq(s, from(k), to(k))]

\* len(s.split()): the number of maximal runs of non-whitespace characters
RECURSIVE WordCount(_)
WordCount(s) ==
    IF s = <<>> THEN 0
    ELSE IF IsSpace(Head(s)) THEN WordCount(Tail(s))
    ELSE IF Len(s) > 1 /\ ~IsSpace(s[2]) THEN WordCount(Tail(s))
    ELSE 1 + WordCount(Tail(s))

(***************************************************************************)
(* split_text_into_clauses                                                 *)
(***************************************************************************)
DigitChar(d) == CASE d = 0 -> "0" [] d = 1 -> "1" [] d = 2 -> "2" [] d = 3 -> "3"
                  [] d = 4 -> "4" [] d = 5 -> "5" [] d = 6 -> "6" [] d = 7 -> "7"
                  [] d = 8 -> "8" [] d = 9 -> "9"

\* str(k) for k >= 0: its decimal digits
RECURSIVE Decimal(_)
Decimal(k) == IF k < 10 THEN <<DigitChar(k)>>
              ELSE Decimal(k \div 10) \o <<DigitChar(k % 10)>>

\* f"{k:03d}": the decimal digits of k, zero-padded on the left to 3 characters
RECURSIVE ZeroPad(_, _)
ZeroPad(ds, w) == IF Len(ds) >= w THEN ds ELSE ZeroPad(<<"0">> \o ds, w)

Format03d(k) == ZeroPad(Decimal(k), IdPadWidth)

\* f"{document_name}_clause_{k:03d}"
ClauseId(document_name, k) == <<document_name, "_clause_">> \o Format03d(k)

\* paragraphs = [p.strip() for p in text.split('\n\n') if p.strip()]
Paragraphs(text) ==
    LET parts == SplitParagraphs(text)
        stripped == [k \in 1..Len(parts) |-> Strip(parts[k])]
    IN SelectSeq(stripped, LAMBDA p : p # <<>>)

\* bugs: the id is numbered from 0; the id does not use the index
ClauseNumberZeroBased(i) == i
ClauseNumberConstant(i) == 1

\* the number part of the id of the paragraph enumerate() gives index i (0-based)
ClauseNumber(i) == i + 1

\* a bug: a paragraph of exactly 100 characters is skipped too
KeepParagraphAbove(paragraph) == ~(StrLen(paragraph) <= MinClauseLen)

\* the paragraph is kept unless len(paragraph) < 100
KeepParagraph(paragraph) == ~(StrLen(paragraph) < MinClauseLen)

MakeClause(paragraph, i, document_name) ==
    [id |-> ClauseId(document_name, ClauseNumber(i)),
     content |-> paragraph,
     document |-> document_name,
     section |-> i + 1,
     metadata |-> [word_count |-> WordCount(paragraph),
                   char_count |-> StrLen(paragraph)]]

\* the loop over enumerate(paragraphs): a clause for every paragraph kept
split_text_into_clauses(text, document_name) ==
    LET paragraphs == Paragraphs(text)
        all == [k \in 1..Len(paragraphs) |->
                  MakeClause(paragraphs[k], k - 1, document_name)]
    IN SelectSeq(all, LAMBDA c : KeepParagraph(c.content))

(***************************************************************************)
(* State                                                                   *)
(*                                                                         *)
(* Process globals: gemini_key (config.GEMINI_API_KEY is set),             *)
(* gemini_configured (_gemini_configured), pinecone_service                *)
(* (_pinecone_service: "None", "Index" or "False"), store (the external    *)
(* vector index).  The other variables are the locals of one run of        *)
(* hackrx_run and of its question tasks; effects is the set of external    *)
(* operations the request has attempted so far, detail the detail of the   *)
(* HTTPException the caller receives, embed_failed the positions of the    *)
(* clauses whose embedding failed, requests the number of requests the     *)
(* process has received.                                                   *)
(***************************************************************************)
VARIABLES gemini_key, gemini_configured, pinecone_service, store,
          pc, questions, document_name, text, clauses, vectors_to_upsert,
          batch_start, semaphore, task, running, relevant_clauses, result,
          answers, raised, status, effects,
          detail, embed_failed, requests, pdf, temp_file, extracted, primary,
          fallback

vars == <<gemini_key, gemini_configured, pinecone_service, store,
          pc, questions, document_name, text, clauses, vectors_to_upsert,
          batch_start, semaphore, task, running, relevant_clauses, result,
          answers, raised, status, effects,
          detail, embed_failed, requests, pdf, temp_file, extracted, primary,
          fallback>>

globals == <<gemini_key, gemini_configured, pinecone_service, store>>
docLocals == <<document_name, text, clauses, vectors_to_upsert, batch_start>>
taskLocals == <<semaphore, task, running, relevant_clauses, result>>
\* the locals of extract_text_from_pdf_url and what became of its two parsers
extractLocals == <<pdf, temp_file, extracted, primary, fallback>>

NoException == [type |-> "none", status |-> 0, msg |-> ""]
ValueError(msg) == [type |-> "ValueError", status |-> 0, msg |-> msg]
HTTPException(code, msg) == [type |-> "HTTPException", status |-> code, msg |-> msg]
RequestsError(kind) == [type |-> kind, status |-> 0, msg |-> ""]

\* a bug: only an HTTP status error is taken for a failed download
IsRequestExceptionStatusOnly(e) == e.type \in {"HTTPError"}

\* a bug: only a network-level error is taken for a failed download
IsRequestExceptionNetworkOnly(e) == e.type \in {"ConnectionError"}

\* requests.ConnectionError, Timeout and HTTPError all derive from RequestException
IsRequestException(e) == e.type \in {"ConnectionError", "HTTPError"}

\* a bug: the handler answers 200 instead of raising
HandlerStatusSwallowed(e) == 200

\* the except clauses of hackrx_run: the status of the HTTPException they raise
HandlerStatus(e) == IF IsRequestException(e) THEN 400 ELSE 500

NoDetail == [prefix |-> "", exception |-> NoException]

\* the detail of the HTTPException the except clauses raise: a prefix and str(e)
HandlerDetail(e) ==
    [prefix |-> IF IsRequestException(e) THEN "Failed to download document: "
                ELSE "Error processing request: ",
     exception |-> e]

Questions == 1..questions

\* a paragraph of n characters as clean_pdf_text leaves it: a sentence
Sentence(n) == <<Cap, Letters(n - 2), Dot>>

\* k such paragraphs separated by paragraph breaks
SentenceText(k, n) ==
    [i \in 1..(5 * k - 2) |->
        CASE (i - 1) % 5 = 0 -> Cap
          [] (i - 1) % 5 = 1 -> Letters(n - 2)
          [] (i - 1) % 5 = 2 -> Dot
          [] OTHER -> NL]

\* the cleaned texts a document may extract to: no long paragraph, a short
\* paragraph before a long one, two long ones (alike, and of different
\* lengths), and more than one upsert batch
DocumentTexts ==
    { Sentence(6),
      Sentence(6) \o <<NL, NL>> \o Sentence(MinClauseLen + 20),
      SentenceText(2, MinClauseLen),
      Sentence(MinClauseLen) \o <<NL, NL>> \o Sentence(MinClauseLen + 20),
      SentenceText(BatchSize + 1, MinClauseLen) }

Init ==
    /\ gemini_key \in BOOLEAN
    /\ gemini_configured = FALSE
    /\ pinecone_service = "None"
    /\ store = {}
    /\ pc = "idle"
    /\ questions = 0
    /\ document_name = ""
    /\ text = <<>>
    /\ clauses = <<>>
    /\ vectors_to_upsert = <<>>
    /\ batch_start = 0
    /\ semaphore = 0
    /\ task = <<>>
    /\ running = 0
    /\ relevant_clauses = <<>>
    /\ result = <<>>
    /\ answers = <<>>
    /\ raised = NoException
    /\ status = 0
    /\ effects = {}
    /\ detail = NoDetail
    /\ embed_failed = {}
    /\ requests = 0
    /\ pdf = <<>>
    /\ temp_file = FALSE
    /\ extracted = <<>>
    /\ primary = "not_run"
    /\ fallback = "not_run"

\* an exception leaves the try block of hackrx_run: the matching except clause
\* raises the HTTPException the caller receives
Fail(e) ==
    /\ raised' = e
    /\ status' = HandlerStatus(e)
    /\ detail' = HandlerDetail(e)
    /\ pc' = "failed"

\* POST /hackrx/run arrives with n questions
Receive ==
    /\ pc = "idle"
    /\ \E n \in 0..MaxQuestions : questions' = n
    /\ pc' = "configure"
    /\ UNCHANGED <<globals, docLocals, taskLocals, answers, raised, status, detail, effects>>
    /\ requests' = requests + 1
    /\ UNCHANGED <<embed_failed, extractLocals>>

\* a bug: without a key the flag is set all the same and the request goes on
ConfigureGeminiSilently ==
    /\ pc = "configure"
    /\ gemini_configured' = TRUE
    /\ pc' = "pinecone"
    /\ UNCHANGED <<gemini_key, pinecone_service, store, questions, docLocals,
                   taskLocals, answers, effects, raised, status, detail>>
    /\ UNCHANGED <<embed_failed, requests, extractLocals>>

\* configure_gemini() at the start of the request
ConfigureGemini ==
    /\ pc = "configure"
    /\ IF gemini_configured
       THEN /\ pc' = "pinecone"
            /\ UNCHANGED <<gemini_configured, raised, status, detail>>
       ELSE IF ~gemini_key
       THEN /\ Fail(ValueError("GEMINI_API_KEY not found"))
            /\ UNCHANGED gemini_configured
       ELSE /\ gemini_configured' = TRUE
            /\ pc' = "pinecone"
            /\ UNCHANGED <<raised, status, detail>>
    /\ UNCHANGED <<gemini_key, pinecone_service, store, questions, docLocals,
                   taskLocals, answers, effects>>
    /\ UNCHANGED <<embed_failed, requests, extractLocals>>

\* a bug: a failed construction is not remembered, every call tries again
PineconeAfterGetRetrying(current, constructs) ==
    IF current # "Index" THEN (IF constructs THEN "Index" ELSE "False") ELSE current

\* get_pinecone_service(): the value of _pinecone_service after the call, given
\* whether constructing the client succeeds
PineconeAfterGet(current, constructs) ==
    IF current = "None" THEN (IF constructs THEN "Index" ELSE "False") ELSE current

\* what get_pinecone_service() returns
PineconeReturned(current) == IF current # "False" THEN current ELSE "None"

\* the exception raised when the index client is not available
PineconeUnavailable == HTTPException(503, "Pinecone service not available")

\* pinecone_service = get_pinecone_service(); if not pinecone_service: raise
GetPinecone ==
    /\ pc = "pinecone"
    /\ \E constructs \in BOOLEAN :
         /\ pinecone_service' = PineconeAfterGet(pinecone_service, constructs)
         /\ IF PineconeReturned(pinecone_service') = "None"
            THEN /\ Fail(PineconeUnavailable)
                 /\ UNCHANGED document_name
            ELSE /\ document_name' = "hackrx_policy"
                 /\ pc' = "download"
                 /\ UNCHANGED <<raised, status, detail>>
    /\ UNCHANGED <<gemini_key, gemini_configured, store, questions, text, clauses,
                   vectors_to_upsert, batch_start, taskLocals, answers, effects>>
    /\ UNCHANGED <<embed_failed, requests, extractLocals>>

\* requests.get(pdf_url, timeout=30); response.raise_for_status()
Download ==
    /\ pc = "download"
    /\ effects' = effects \cup {"download"}
    /\ \E outcome \in {"ok", "ConnectionError", "HTTPError"} :
         IF outcome = "ok"
         THEN pc' = "extract" /\ UNCHANGED <<raised, status, detail>>
         ELSE Fail(RequestsError(outcome))
    /\ UNCHANGED <<globals, questions, docLocals, taskLocals, answers>>
    /\ UNCHANGED <<embed_failed, requests, extractLocals>>

\* the rest of extract_text_from_pdf_url: the cleaned text of a parser, or
\* ValueError when no parser yields text
Extract ==
    /\ pc = "extract"
    /\ effects' = effects \cup {"extract"}
    /\ \/ /\ \E t \in DocumentTexts : text' = t
          /\ pc' = "chunk"
          /\ UNCHANGED <<raised, status, detail>>
       \/ /\ Fail(ValueError("Could not extract text from PDF"))
          /\ UNCHANGED text
    /\ UNCHANGED <<globals, questions, document_name, clauses, vectors_to_upsert,
                   batch_start, taskLocals, answers>>
    /\ UNCHANGED <<embed_failed, requests, extractLocals>>

\* clauses = split_text_into_clauses(text, document_name)
Chunk ==
    /\ pc = "chunk"
    /\ effects' = effects \cup {"chunk"}
    /\ clauses' = split_text_into_clauses(text, document_name)
    /\ pc' = "embed"
    /\ UNCHANGED <<globals, questions, document_name, text, vectors_to_upsert,
                   batch_start, taskLocals, answers, raised, status, detail>>
    /\ UNCHANGED <<embed_failed, requests, extractLocals>>

(***************************************************************************)
(* upload_clauses_to_pinecone                                              *)
(***************************************************************************)
Min(a, b) == IF a <= b THEN a ELSE b

\* the sets of clause positions whose embedding call may fail in one run
EmbedFailureSets(n) ==
    IF n <= 2 THEN SUBSET (1..n) ELSE {{}, {1}, {n}, 1..n}

\* genai.embed_content(content, task_type): the provider's vector for the text
\* named by key, or the failure of the call
EmbedContent(key, task_type, fails) ==
    [failed |-> fails, task_type |-> task_type, of |-> key]

\* generate_embedding: result['embedding'], or None when the call raises
GenerateEmbedding(clause, fails) ==
    LET r == EmbedContent(clause.id, "retrieval_document", fails)
    IN [none |-> r.failed, task_type |-> r.task_type, of |-> r.of]

MakeVector(clause, embedding) ==
    [id |-> clause.id,
     values |-> embedding,
     metadata |-> [content |-> clause.content,
                   document |-> clause.document,
                   section |-> clause.section]]

\* a bug: a clause whose embedding failed is uploaded with the failure as its values
VectorsFromUnskipped(cs, failing) ==
    [k \in 1..Len(cs) |-> MakeVector(cs[k], GenerateEmbedding(cs[k], k \in failing))]

\* the loop over clauses: a clause whose embedding is None is skipped
VectorsFrom(cs, failing) ==
    LET all == [k \in 1..Len(cs) |->
                  MakeVector(cs[k], GenerateEmbedding(cs[k], k \in failing))]
    IN SelectSeq(all, LAMBDA v : ~v.values.none)

\* upload_clauses_to_pinecone returns False when there is nothing to upsert
UploadFailed == HTTPException(500, "Failed to upload document to vector database")

EmbedClauses ==
    /\ pc = "embed"
    /\ \E failing \in EmbedFailureSets(Len(clauses)) :
         /\ embed_failed' = failing
         /\ vectors_to_upsert' = VectorsFrom(clauses, failing)
    /\ effects' = IF clauses = <<>> THEN effects ELSE effects \cup {"embed_document"}
    /\ batch_start' = 0
    /\ IF vectors_to_upsert' = <<>>
       THEN Fail(UploadFailed)
       ELSE pc' = "upsert" /\ UNCHANGED <<raised, status, detail>>
    /\ UNCHANGED <<globals, questions, document_name, text, clauses, taskLocals,
                   answers>>
    /\ UNCHANGED <<requests, extractLocals>>

\* a bug: the slice runs one vector past the batch size
BatchOverlong(vectors, i) == SubSeq(vectors, i + 1, Min(i + BatchSize + 1, Len(vectors)))

\* batch = vectors_to_upsert[i:i + batch_size]
Batch(vectors, i) == SubSeq(vectors, i + 1, Min(i + BatchSize, Len(vectors)))

\* pinecone_service.upsert(vectors=batch): a vector replaces the one of the same id
Upsert(index, batch) ==
    LET ids == {batch[k].id : k \in 1..Len(batch)}
    IN {v \in index : v.id \notin ids} \cup {batch[k] : k \in 1..Len(batch)}

\* a bug: the failure of a batch is logged and the upload reports success
ResultOnBatchErrorIgnored == TRUE

\* what upload_clauses_to_pinecone returns when the upsert of a batch raises
ResultOnBatchError == FALSE

UpsertBatch ==
    /\ pc = "upsert"
    /\ effects' = effects \cup {"upsert"}
    /\ \E ok \in BOOLEAN :
         IF ok
         THEN /\ store' = Upsert(store, Batch(vectors_to_upsert, batch_start))
              /\ batch_start' = batch_start + BatchSize
              /\ pc' = IF batch_start' < Len(vectors_to_upsert) THEN "upsert" ELSE "gather"
              /\ UNCHANGED <<raised, status, detail>>
         ELSE /\ UNCHANGED <<store, batch_start>>
              /\ IF ResultOnBatchError
                 THEN pc' = "gather" /\ UNCHANGED <<raised, status, detail>>
                 ELSE Fail(UploadFailed)
    /\ UNCHANGED <<gemini_key, gemini_configured, pinecone_service, questions,
                   document_name, text, clauses, vectors_to_upsert, taskLocals,
                   answers>>
    /\ UNCHANGED <<embed_failed, requests, extractLocals>>

(***************************************************************************)
(* The answering phase: process_question, process_with_semaphore, gather   *)
(*                                                                         *)
(* Every call of process_question and generate_answer is a plain           *)
(* (blocking) call: a task that has entered the semaphore runs to its      *)
(* return without giving up the event loop.  running is the task that      *)
(* holds the event loop, 0 when none does.  The event loop runs the ready  *)
(* callbacks in the order they were scheduled (loop.call_soon), so the     *)
(* tasks start in the order gather created them.                           *)
(***************************************************************************)
NoResult == [kind |-> "none", q |-> 0, where |-> "", context |-> <<>>]

\* a bug: the exception is not caught and leaves the task
OnQuestionErrorRaised(q, where) ==
    [kind |-> "raise", q |-> q, where |-> where, context |-> <<>>]

\* return f"Error processing question: {str(e)}" (process_question's except
\* clause, and the one of generate_answer)
OnQuestionError(q, where) ==
    [kind |-> "error", q |-> q, where |-> where, context |-> <<>>]

\* return "No relevant information found in the document"
NoInformation(q) == [kind |-> "no_information", q |-> q, where |-> "", context |-> <<>>]

\* the text the generation provider returns for the question and the passages
Answer(q, passages) ==
    [kind |-> "answer", q |-> q, where |-> "",
     context |-> [k \in 1..Len(passages) |-> passages[k].clause_id]]

\* the k vectors of lowest section among cands, in that order
RECURSIVE TakeBySection(_, _)
TakeBySection(cands, k) ==
    IF k = 0 \/ cands = {} THEN <<>>
    ELSE LET v == CHOOSE x \in cands : \A y \in cands : x.metadata.section <= y.metadata.section
         IN <<v>> \o TakeBySection(cands \ {v}, k - 1)

\* a bug: the index is asked for one match more than top_k
QueryResultsOneMore(index, document) ==
    LET cands == {v \in index : v.metadata.document = document}
    IN {<<>>, TakeBySection(cands, Min(TopK + 1, Cardinality(cands)))}

\* pinecone_service.query(top_k=8, filter={"document": document_name}): no match
\* (the index does not show the vectors yet) or the top_k best of the document
QueryResults(index, document) ==
    LET cands == {v \in index : v.metadata.document = document}
    IN {<<>>, TakeBySection(cands, Min(TopK, Cardinality(cands)))}

\* a bug: the metadata key is missed and every content is the default ''
ToClausesDefaulted(matches) ==
    [k \in 1..Len(matches) |-> [clause_id |-> matches[k].id, content |-> <<>>]]

\* Clause(clause_id=match.id, content=match.metadata.get('content', ''), ...)
ToClauses(matches) ==
    [k \in 1..Len(matches) |->
        [clause_id |-> matches[k].id, content |-> matches[k].metadata.content]]

\* semaphore = asyncio.Semaphore(3); tasks = [...]; await asyncio.gather(*tasks)
StartGather ==
    /\ pc = "gather"
    /\ semaphore' = SemaphoreLimit
    /\ task' = [t \in Questions |-> "ready"]
    /\ result' = [t \in Questions |-> NoResult]
    /\ running' = 0
    /\ pc' = "answering"
    /\ UNCHANGED <<globals, questions, docLocals, relevant_clauses, answers,
                   raised, status, detail, effects>>
    /\ UNCHANGED <<embed_failed, requests, extractLocals>>

InFlightStates == {"embed", "query", "generate"}

\* t is the ready task scheduled first
FirstReady(t) == \A u \in Questions : u < t => task[u] # "ready"

\* a bug: the task enters process_question without the semaphore and without
\* waiting for the task that is running
EnterUnbounded(t) ==
    /\ pc = "answering"
    /\ task[t] = "ready"
    /\ semaphore' = semaphore
    /\ task' = [task EXCEPT ![t] = "embed"]
    /\ running' = t
    /\ UNCHANGED <<globals, pc, questions, docLocals, relevant_clauses, result,
                   answers, raised, status, detail, effects>>
    /\ UNCHANGED <<embed_failed, requests, extractLocals>>

\* the event loop runs task t: async with semaphore, then process_question starts.
\* With a free slot acquire() returns at once; with none the task suspends.
Enter(t) ==
    /\ pc = "answering"
    /\ running = 0
    /\ task[t] = "ready"
    /\ FirstReady(t)
    /\ IF semaphore > 0
       THEN /\ semaphore' = semaphore - 1
            /\ task' = [task EXCEPT ![t] = "embed"]
            /\ running' = t
       ELSE /\ task' = [task EXCEPT ![t] = "waiting"]
            /\ UNCHANGED <<semaphore, running>>
    /\ UNCHANGED <<globals, pc, questions, docLocals, relevant_clauses, result,
                   answers, raised, status, detail, effects>>
    /\ UNCHANGED <<embed_failed, requests, extractLocals>>

\* a bug: the slot is released only when process_question gave an answer
ReturnReleasingOnSuccess(t, r) ==
    /\ result' = [result EXCEPT ![t] = r]
    /\ semaphore' = IF r.kind = "error" THEN semaphore ELSE semaphore + 1
    /\ task' = [u \in Questions |->
                  IF u = t THEN "done"
                  ELSE IF task[u] = "waiting" THEN "ready" ELSE task[u]]
    /\ running' = 0

\* a bug: the task ends without releasing the semaphore
ReturnHolding(t, r) ==
    /\ result' = [result EXCEPT ![t] = r]
    /\ semaphore' = semaphore
    /\ task' = [task EXCEPT ![t] = "done"]
    /\ running' = 0

\* process_question returns r (or raises, r.kind = "raise"): the semaphore is
\* released, which wakes the tasks waiting for it, and the task ends
Return(t, r) ==
    /\ result' = [result EXCEPT ![t] = r]
    /\ semaphore' = semaphore + 1
    /\ task' = [u \in Questions |->
                  IF u = t THEN "done"
                  ELSE IF task[u] = "waiting" THEN "ready" ELSE task[u]]
    /\ running' = 0

\* result = genai.embed_content(content=question, task_type="retrieval_query")
EmbedQuestion(t) ==
    /\ pc = "answering"
    /\ running = t
    /\ task[t] = "embed"
    /\ effects' = effects \cup {"embed_question"}
    /\ \E fails \in BOOLEAN :
         IF EmbedContent(t, "retrieval_query", fails).failed
         THEN Return(t, OnQuestionError(t, "embed"))
         ELSE /\ task' = [task EXCEPT ![t] = "query"]
              /\ UNCHANGED <<semaphore, running, result>>
    /\ UNCHANGED <<globals, pc, questions, docLocals, relevant_clauses, answers,
                   raised, status, detail>>
    /\ UNCHANGED <<embed_failed, requests, extractLocals>>

\* search_results = pinecone_service.query(...); no matches: the fixed answer
QueryIndex(t) ==
    /\ pc = "answering"
    /\ running = t
    /\ task[t] = "query"
    /\ effects' = effects \cup {"query"}
    /\ \/ /\ Return(t, OnQuestionError(t, "query"))
          /\ UNCHANGED relevant_clauses
       \/ \E matches \in QueryResults(store, document_name) :
            IF matches = <<>>
            THEN /\ Return(t, NoInformation(t))
                 /\ UNCHANGED relevant_clauses
            ELSE /\ relevant_clauses' = ToClauses(matches)
                 /\ task' = [task EXCEPT ![t] = "generate"]
                 /\ UNCHANGED <<semaphore, running, result>>
    /\ UNCHANGED <<globals, pc, questions, docLocals, answers, raised, status, detail>>
    /\ UNCHANGED <<embed_failed, requests, extractLocals>>

\* answer = await generate_answer(question, relevant_clauses); return answer
Generate(t) ==
    /\ pc = "answering"
    /\ running = t
    /\ task[t] = "generate"
    /\ effects' = effects \cup {"generate"}
    /\ \E fails \in BOOLEAN :
         IF fails
         THEN Return(t, OnQuestionError(t, "generate"))
         ELSE Return(t, Answer(t, relevant_clauses))
    /\ UNCHANGED <<globals, pc, questions, docLocals, relevant_clauses, answers,
                   raised, status, detail>>
    /\ UNCHANGED <<embed_failed, requests, extractLocals>>

\* generate_answer: the contents that make up clauses_context, in order
ClausesContext(passages) == [k \in 1..Len(passages) |-> passages[k].content]

\* a bug: the answers of the questions that failed are left out
GatherSuccessful(results) == SelectSeq(results, LAMBDA r : r.kind # "error")

\* the list asyncio.gather returns: the results in the order of the tasks
GatherResults(results) == [i \in 1..Len(results) |-> results[i]]

\* gather ends: it raises the exception of a task that raised, or returns the
\* results once every task is done; hackrx_run returns HackRXResponse(answers)
GatherDone ==
    /\ pc = "answering"
    /\ running = 0
    /\ LET raising == {t \in Questions : result[t].kind = "raise"}
       IN IF raising # {}
          THEN /\ Fail(ValueError("question task raised"))
               /\ UNCHANGED answers
          ELSE /\ \A t \in Questions : task[t] = "done"
               /\ answers' = GatherResults(result)
               /\ status' = 200
               /\ pc' = "complete"
               /\ UNCHANGED <<raised, detail>>
    /\ UNCHANGED <<globals, questions, docLocals, taskLocals, effects>>
    /\ UNCHANGED <<embed_failed, requests, extractLocals>>

Next ==
    \/ Receive
    \/ ConfigureGemini
    \/ GetPinecone
    \/ Download
    \/ Extract
    \/ Chunk
    \/ EmbedClauses
    \/ UpsertBatch
    \/ StartGather
    \/ \E t \in Questions : Enter(t)
    \/ \E t \in Questions : EmbedQuestion(t)
    \/ \E t \in Questions : QueryIndex(t)
    \/ \E t \in Questions : Generate(t)
    \/ GatherDone

Spec == Init /\ [][Next]_vars

\* the steps that wait for an external call or for the event loop
CallsAndScheduling ==
    \/ Receive
    \/ ConfigureGemini
    \/ GetPinecone
    \/ Download
    \/ Extract
    \/ EmbedClauses
    \/ UpsertBatch
    \/ StartGather
    \/ \E t \in Questions : Enter(t)
    \/ \E t \in Questions : EmbedQuestion(t)
    \/ \E t \in Questions : QueryIndex(t)
    \/ \E t \in Questions : Generate(t)
    \/ GatherDone

\* split_text_into_clauses is a loop over a finite list: it returns.  This is
\* WF_vars(Chunk), Chunk being enabled exactly when pc = "chunk".
ChunkerReturns == []<>(pc # "chunk")

\* every external call returns or raises and the event loop keeps running:
\* a step that can be taken is eventually taken
FairSpec == Spec /\ WF_vars(CallsAndScheduling) /\ ChunkerReturns

(***************************************************************************)
(* clean_pdf_text and the raw text of extract_text_from_pdf_url            *)
(*                                                                         *)
(* A page header "--- PAGE k ---" is one atom of class "marker".           *)
(***************************************************************************)
PageMarker == [cls |-> "marker", n |-> 14]

\* text += f"\n--- PAGE {page_num + 1} ---\n"; text += page_text + "\n"
PageBlock(page_text) == <<NL, PageMarker, NL>> \o page_text \o <<NL>>

\* the number of whitespace atoms s starts with
RECURSIVE SpaceRun(_)
SpaceRun(s) ==
    IF s = <<>> \/ ~IsSpace(Head(s)) THEN 0 ELSE 1 + SpaceRun(Tail(s))

\* re.sub(r'\n\s*\n', '\n\n', text): in a run of whitespace, what lies from
\* a first newline to the last newline becomes one paragraph break
RECURSIVE CollapseBlankLines(_)
CollapseBlankLines(s) ==
    IF s = <<>> THEN <<>>
    ELSE IF Head(s).cls = "nl"
    THEN LET w == SpaceRun(s)
             last == CHOOSE i \in 1..w :
                        /\ s[i].cls = "nl"
                        /\ \A j \in (i + 1)..w : s[j].cls # "nl"
         IN IF last > 1
            THEN <<NL, NL>> \o CollapseBlankLines(SubSeq(s, last + 1, Len(s)))
            ELSE <<NL>> \o CollapseBlankLines(Tail(s))
    ELSE <<Head(s)>> \o CollapseBlankLines(Tail(s))

\* re.sub(r'--- PAGE \d+ ---\n', '', text)
RECURSIVE RemovePageMarkers(_)
RemovePageMarkers(s) ==
    IF s = <<>> THEN <<>>
    ELSE IF Head(s).cls = "marker" /\ Len(s) > 1 /\ s[2].cls = "nl"
    THEN RemovePageMarkers(SubSeq(s, 3, Len(s)))
    ELSE <<Head(s)>> \o RemovePageMarkers(Tail(s))

\* re.sub(r'([a-z])([A-Z])', r'\1 \2', text)
RECURSIVE SplitLowerUpper(_)
SplitLowerUpper(s) ==
    IF s = <<>> THEN <<>>
    ELSE IF Head(s).cls = "lc" /\ Len(s) > 1 /\ s[2].cls = "uc"
    THEN <<Head(s), SP>> \o SplitLowerUpper(Tail(s))
    ELSE <<Head(s)>> \o SplitLowerUpper(Tail(s))

\* a bug: a run of whitespace becomes a newline instead of a blank
RECURSIVE CollapseWhitespaceToNewline(_)
CollapseWhitespaceToNewline(s) ==
    IF s = <<>> THEN <<>>
    ELSE IF IsSpace(Head(s))
    THEN <<NL>> \o CollapseWhitespaceToNewline(SubSeq(s, SpaceRun(s) + 1, Len(s)))
    ELSE <<Head(s)>> \o CollapseWhitespaceToNewline(Tail(s))

\* re.sub(r'\s+', ' ', text)
RECURSIVE CollapseWhitespace(_)
CollapseWhitespace(s) ==
    IF s = <<>> THEN <<>>
    ELSE IF IsSpace(Head(s))
    THEN <<SP>> \o CollapseWhitespace(SubSeq(s, SpaceRun(s) + 1, Len(s)))
    ELSE <<Head(s)>> \o CollapseWhitespace(Tail(s))

\* re.sub(r'([.!?])\s*([A-Z])', r'\1\n\n\2', text)
RECURSIVE BreakSentences(_)
BreakSentences(s) ==
    IF s = <<>> THEN <<>>
    ELSE IF Head(s).cls = "pt"
    THEN LET w == SpaceRun(Tail(s))
         IN IF Len(s) >= w + 2 /\ s[w + 2].cls = "uc"
            THEN <<Head(s), NL, NL>> \o BreakSentences(SubSeq(s, w + 2, Len(s)))
            ELSE <<Head(s)>> \o BreakSentences(Tail(s))
    ELSE <<Head(s)>> \o BreakSentences(Tail(s))

clean_pdf_text(s) ==
    Strip(BreakSentences(CollapseWhitespace(SplitLowerUpper(
        RemovePageMarkers(CollapseBlankLines(s))))))

(***************************************************************************)
(* The service over several requests, with extract_text_from_pdf_url in    *)
(* steps.  pdf is the text of each page of the downloaded file, extracted  *)
(* the local text of extract_text_from_pdf_url, temp_file whether the      *)
(* temporary file of this request exists, primary and fallback how         *)
(* pdfplumber and PyPDF2 ended.  The globals and the index live on from    *)
(* one request to the next.                                                *)
(***************************************************************************)
PdfDocuments ==
    { <<Sentence(6)>>,
      <<Sentence(6), Sentence(MinClauseLen + 20)>>,
      <<Sentence(MinClauseLen), Sentence(MinClauseLen)>> }

OSError(msg) == [type |-> "OSError", status |-> 0, msg |-> msg]

\* one run of a parser over the pages: the number of pages whose text it
\* appended, and whether it then raised
ParserRuns(doc) ==
    {[pages |-> Len(doc), raised |-> FALSE],
     [pages |-> 0, raised |-> FALSE]}
        \cup {[pages |-> k, raised |-> TRUE] : k \in 0..(Len(doc) - 1)}

ParserOutcome(run) ==
    IF run.raised THEN "raised" ELSE IF run.pages > 0 THEN "text" ELSE "empty"

\* what the loop over the pages appends for the first k pages
RECURSIVE PageBlocks(_, _)
PageBlocks(doc, k) ==
    IF k = 0 THEN <<>> ELSE PageBlocks(doc, k - 1) \o PageBlock(doc[k])

\* POST /hackrx/run arrives after the request before it has ended
ReceiveNext ==
    /\ pc \in {"idle", "complete", "failed"}
    /\ requests < MaxRequests
    /\ requests' = requests + 1
    /\ \E n \in 0..MaxSeqQuestions : questions' = n
    /\ pc' = "configure"
    /\ document_name' = ""
    /\ text' = <<>>
    /\ clauses' = <<>>
    /\ vectors_to_upsert' = <<>>
    /\ batch_start' = 0
    /\ semaphore' = 0
    /\ task' = <<>>
    /\ running' = 0
    /\ relevant_clauses' = <<>>
    /\ result' = <<>>
    /\ answers' = <<>>
    /\ raised' = NoException
    /\ status' = 0
    /\ effects' = {}
    /\ detail' = NoDetail
    /\ embed_failed' = {}
    /\ pdf' = <<>>
    /\ temp_file' = FALSE
    /\ extracted' = <<>>
    /\ primary' = "not_run"
    /\ fallback' = "not_run"
    /\ UNCHANGED globals

\* with tempfile.NamedTemporaryFile(delete=False, suffix='.pdf') as temp_file:
\* temp_file.write(response.content); text = ""
SaveTemp ==
    /\ pc = "extract"
    /\ effects' = effects \cup {"extract"}
    /\ \E doc \in PdfDocuments, outcome \in {"written", "write_failed", "create_failed"} :
         /\ pdf' = doc
         /\ temp_file' = (outcome # "create_failed")
         /\ IF outcome = "written"
            THEN pc' = "primary" /\ UNCHANGED <<raised, status, detail>>
            ELSE Fail(OSError(outcome))
    /\ extracted' = <<>>
    /\ UNCHANGED <<globals, questions, docLocals, taskLocals, answers, embed_failed,
                   requests, primary, fallback>>

\* return clean_pdf_text(text), through the finally clause that unlinks the file
ReturnText(raw) ==
    /\ text' = clean_pdf_text(raw)
    /\ temp_file' = FALSE
    /\ pc' = "chunk"
    /\ UNCHANGED <<raised, status, detail>>

\* raise ValueError("Could not extract text from PDF"), through the finally clause
RaiseNoText ==
    /\ temp_file' = FALSE
    /\ Fail(ValueError("Could not extract text from PDF"))
    /\ UNCHANGED text

\* Method 1, pdfplumber: return if it ended without raising and text.strip()
Primary ==
    /\ pc = "primary"
    /\ \E run \in ParserRuns(pdf) :
         /\ extracted' = extracted \o PageBlocks(pdf, run.pages)
         /\ primary' = ParserOutcome(run)
         /\ IF ~run.raised /\ Strip(extracted') # <<>>
            THEN ReturnText(extracted')
            ELSE /\ pc' = "fallback"
                 /\ UNCHANGED <<text, temp_file, raised, status, detail>>
    /\ UNCHANGED <<globals, questions, document_name, clauses, vectors_to_upsert,
                   batch_start, taskLocals, answers, effects, embed_failed,
                   requests, pdf, fallback>>

\* Method 2, PyPDF2, appending to the same text; then lines 135-138
Fallback ==
    /\ pc = "fallback"
    /\ \E run \in ParserRuns(pdf) :
         /\ extracted' = extracted \o PageBlocks(pdf, run.pages)
         /\ fallback' = ParserOutcome(run)
         /\ IF Strip(extracted') # <<>>
            THEN ReturnText(extracted')
            ELSE RaiseNoText
    /\ UNCHANGED <<globals, questions, document_name, clauses, vectors_to_upsert,
                   batch_start, taskLocals, answers, effects, embed_failed,
                   requests, pdf, primary>>

ServiceNext ==
    \/ ReceiveNext
    \/ ConfigureGemini
    \/ GetPinecone
    \/ Download
    \/ SaveTemp
    \/ Primary
    \/ Fallback
    \/ Chunk
    \/ EmbedClauses
    \/ UpsertBatch
    \/ StartGather
    \/ \E t \in Questions : Enter(t)
    \/ \E t \in Questions : EmbedQuestion(t)
    \/ \E t \in Questions : QueryIndex(t)
    \/ \E t \in Questions : Generate(t)
    \/ GatherDone

SpecService == Init /\ [][ServiceNext]_vars

(***************************************************************************)
(* split_text_into_clauses on its own: every text of at most MaxAtoms      *)
(* atoms, chunked under either document name                               *)
(***************************************************************************)
ChunkAtoms == {NL, SP, Letters(MinClauseLen - 1), Letters(MinClauseLen)}

ChunkTexts == UNION {[1..k -> ChunkAtoms] : k \in 0..MaxAtoms}

DocumentNames == {"doc1", "hackrx_policy"}

InitChunk ==
    /\ gemini_key = TRUE
    /\ gemini_configured = FALSE
    /\ pinecone_service = "None"
    /\ store = {}
    /\ pc = "chunk_input"
    /\ questions = 0
    /\ document_name = ""
    /\ text \in ChunkTexts
    /\ clauses = <<>>
    /\ vectors_to_upsert = <<>>
    /\ batch_start = 0
    /\ semaphore = 0
    /\ task = <<>>
    /\ running = 0
    /\ relevant_clauses = <<>>
    /\ result = <<>>
    /\ answers = <<>>
    /\ raised = NoException
    /\ status = 0
    /\ effects = {}
    /\ detail = NoDetail
    /\ embed_failed = {}
    /\ requests = 0
    /\ pdf = <<>>
    /\ temp_file = FALSE
    /\ extracted = <<>>
    /\ primary = "not_run"
    /\ fallback = "not_run"

ApplyChunker ==
    /\ pc = "chunk_input"
    /\ \E d \in DocumentNames :
         /\ document_name' = d
         /\ clauses' = split_text_into_clauses(text, d)
    /\ pc' = "chunk_output"
    /\ UNCHANGED <<globals, questions, text, vectors_to_upsert, batch_start,
                   taskLocals, answers, raised, status, detail, effects>>
    /\ UNCHANGED <<embed_failed, requests, extractLocals>>

NextChunk == ApplyChunker

SpecChunk == InitChunk /\ [][NextChunk]_vars

(***************************************************************************)
(* Properties                                                              *)
(***************************************************************************)
Terminal == pc \in {"complete", "failed"}

InFlight == {t \in DOMAIN task : task[t] \in InFlightStates}

QuestionEffects == {"embed_question", "query", "generate"}

\* C1: when the request completes, answers has one entry per question and
\* entry i is the value the task of question i returned, whichever of the
\* questions failed.
C1_AnswersInQuestionOrder ==
    pc = "complete" =>
        /\ Len(answers) = questions
        /\ \A i \in 1..questions :
             /\ answers[i].q = i
             /\ answers[i].kind \in {"answer", "no_information", "error"}

\* three questions or more, at least one failed and at least one answered
C1_Witness ==
    /\ pc = "complete"
    /\ questions >= 3
    /\ \E i, j \in 1..questions :
         /\ i < j
         /\ answers[i].kind = "error"
         /\ answers[j].kind = "answer"

\* no exception leaves a task; a request that processed a question ends 200
C2_State ==
    /\ \A t \in DOMAIN result :
         result[t].kind \in {"none", "answer", "no_information", "error"}
    /\ (pc = "failed" => effects \cap QuestionEffects = {})
    /\ (pc = "complete" => status = 200 /\ Len(answers) = questions)

\* a step that sets the result of one question changes no other result
C2_Step ==
    \A t \in DOMAIN result :
        (t \in DOMAIN result' /\ result'[t] # result[t]) =>
            /\ result[t] = NoResult
            /\ result'[t].q = t
            /\ result'[t].kind \in {"answer", "no_information", "error"}
            /\ (result'[t].kind = "error" => result'[t].where = task[t])
            /\ pc' = pc
            /\ \A u \in DOMAIN result \ {t} : result'[u] = result[u]

\* C2: a failure of the embedding, the query or the generation of one question
\* becomes the error answer of that question: no exception leaves its task,
\* the request is not failed once a question has been processed and ends with
\* status 200, and a step that sets the result of one question leaves the
\* results of the other questions as they are.
C2_QuestionFailureIsolated == []C2_State /\ [][C2_Step]_vars

\* four questions, exactly one failed at its embedding, three answered
C2_Witness ==
    /\ pc = "complete"
    /\ status = 200
    /\ questions = 4
    /\ Cardinality({i \in 1..4 : answers[i].kind = "error"
                                 /\ answers[i].where = "embed"}) = 1
    /\ Cardinality({i \in 1..4 : answers[i].kind = "answer"}) = 3

\* C3: a request that fails because get_pinecone_service returned None is
\* answered with status 503.
C3_Unavailable503 ==
    (pc = "failed" /\ raised = PineconeUnavailable) => status = 503

IndexingComplete ==
    /\ vectors_to_upsert # <<>>
    /\ batch_start >= Len(vectors_to_upsert)
    /\ \A k \in 1..Len(vectors_to_upsert) : vectors_to_upsert[k] \in store

C5_ZeroPassagesNotFatal ==
    ("chunk" \in effects /\ clauses = <<>>) => pc # "failed"

(***************************************************************************)
(* Properties of split_text_into_clauses (SpecChunk)                       *)
(***************************************************************************)
Chunked == pc = "chunk_output"

DigitOf(c) == CHOOSE d \in 0..9 : DigitChar(d) = c

RECURSIVE DigitsValue(_)
DigitsValue(ds) ==
    IF ds = <<>> THEN 0
    ELSE 10 * DigitsValue(SubSeq(ds, 1, Len(ds) - 1)) + DigitOf(ds[Len(ds)])

IdDigits(id) == SubSeq(id, 3, Len(id))
IdNumber(id) == DigitsValue(IdDigits(id))

WellFormedId(id, document) ==
    /\ Len(id) = 2 + IdPadWidth
    /\ id[1] = document
    /\ id[2] = "_clause_"
    /\ \A k \in 3..Len(id) : id[k] \in {DigitChar(d) : d \in 0..9}

\* the number of paragraphs before position n that are too short to be kept
ShortBefore(ps, n) ==
    Cardinality({j \in 1..(n - 1) : StrLen(ps[j]) < MinClauseLen})

\* C6 as stated: the k-th passage returned has the number k in its id.
C6_NumberedAmongRetained ==
    Chunked => \A k \in 1..Len(clauses) :
        /\ WellFormedId(clauses[k].id, document_name)
        /\ IdNumber(clauses[k].id) = k

\* C6 amended: the k-th passage returned has in its id, zero-padded to 3
\* digits, the position of its paragraph among the non-empty paragraphs of the
\* text, which is k plus the number of short paragraphs before it.
C6_NumberedAmongParagraphs ==
    Chunked =>
        LET ps == Paragraphs(text)
        IN \A k \in 1..Len(clauses) :
             LET n == IdNumber(clauses[k].id)
             IN /\ WellFormedId(clauses[k].id, document_name)
                /\ n \in 1..Len(ps)
                /\ ps[n] = clauses[k].content
                /\ n = k + ShortBefore(ps, n)

\* a short paragraph, then a long one, document doc1: one passage, numbered 2
C6_Witness ==
    /\ Chunked
    /\ document_name = "doc1"
    /\ text = <<Letters(MinClauseLen - 1), NL, NL, Letters(MinClauseLen)>>
    /\ Len(clauses) = 1
    /\ clauses[1].id = <<"doc1", "_clause_", "0", "0", "2">>

\* C7: the ids of the passages of one run are pairwise distinct and their
\* numbers increase strictly with the position in the output.
C7_IdsDistinctIncreasing ==
    Chunked => \A j, k \in 1..Len(clauses) :
        j < k => /\ clauses[j].id # clauses[k].id
                 /\ IdNumber(clauses[j].id) < IdNumber(clauses[k].id)

C7_Witness ==
    /\ Chunked
    /\ Len(clauses) >= 2
    /\ IdNumber(clauses[2].id) > IdNumber(clauses[1].id) + 1

\* the content of clause k is the piece of text that starts at atom from[k]
OccursAt(k, from) ==
    LET c == clauses[k].content
    IN /\ from + Len(c) - 1 <= Len(text)
       /\ SubSeq(text, from, from + Len(c) - 1) = c

\* C8: the passages are non-overlapping pieces of the text, in the order of the
\* text, each of 100 characters or more; a paragraph is among them exactly
\* when its trimmed length is at least 100.
C8_PassagesAreLongParagraphs ==
    Chunked =>
        LET ps == Paragraphs(text)
            n == Len(clauses)
        IN /\ \A k \in 1..n : StrLen(clauses[k].content) >= MinClauseLen
           /\ \E from \in [1..n -> 1..Len(text)] :
                /\ \A k \in 1..n : OccursAt(k, from[k])
                /\ \A k \in 1..(n - 1) :
                     from[k] + Len(clauses[k].content) <= from[k + 1]
           /\ \A j \in 1..Len(ps) :
                StrLen(ps[j]) >= MinClauseLen
                    <=> \E k \in 1..n : clauses[k].content = ps[j]
           /\ n = Cardinality({j \in 1..Len(ps) : StrLen(ps[j]) >= MinClauseLen})

\* two passages kept, one short paragraph dropped, a paragraph of exactly 100
C8_Witness ==
    /\ Chunked
    /\ Len(clauses) = 2
    /\ Len(Paragraphs(text)) = 3
    /\ \E k \in 1..2 : StrLen(clauses[k].content) = MinClauseLen

(***************************************************************************)
(* Properties of the phases (Spec)                                         *)
(***************************************************************************)
QuestionWorkStarted ==
    \/ effects \cap QuestionEffects # {}
    \/ \E t \in DOMAIN task : task[t] \in InFlightStates \cup {"done"}

\* C9: no question is embedded, queried or answered before every upsert batch
\* of the request has been issued and has succeeded.
C9_PhaseBarrier == QuestionWorkStarted => IndexingComplete

\* a question answered from an index filled by two batches
C9_Witness ==
    /\ "generate" \in effects
    /\ Len(vectors_to_upsert) > BatchSize
    /\ batch_start = 2 * BatchSize

\* C10: at most 3 questions are in flight at any time.
C10_BoundedInFlight == Cardinality(InFlight) <= SemaphoreLimit

\* more questions than slots, one of them in flight after three have returned
C10_Witness ==
    /\ pc = "answering"
    /\ questions > SemaphoreLimit
    /\ InFlight = {questions}
    /\ semaphore = SemaphoreLimit - 1

(***************************************************************************)
(* Properties of the failure paths (Spec)                                  *)
(***************************************************************************)
DocumentEffects == {"extract", "chunk", "embed_document", "upsert"}

\* C12: when requests.get fails with a network-level error the request ends
\* with HTTP 400, the detail carries the message of the error, and nothing is
\* extracted, chunked, embedded, upserted or asked.
C12_NetworkErrorIs400 ==
    raised.type = "ConnectionError" =>
        /\ pc = "failed"
        /\ status = 400
        /\ detail = [prefix |-> "Failed to download document: ",
                     exception |-> RequestsError("ConnectionError")]
        /\ effects \cap (DocumentEffects \cup QuestionEffects) = {}
        /\ text = <<>> /\ clauses = <<>> /\ vectors_to_upsert = <<>>
        /\ store = {} /\ task = <<>> /\ answers = <<>>

\* the download has been attempted and has failed on the network
C12_Witness ==
    /\ pc = "failed"
    /\ "download" \in effects
    /\ raised = RequestsError("ConnectionError")

\* the vectors at positions from..to of the upload
VectorsAt(from, to) == {vectors_to_upsert[k] : k \in from..Min(to, Len(vectors_to_upsert))}

Uploading == pc = "upsert" \/ (pc = "failed" /\ "upsert" \in effects)

C16_State ==
    Uploading =>
        /\ batch_start % BatchSize = 0
        /\ batch_start <= Len(vectors_to_upsert)
        /\ store = VectorsAt(1, batch_start)

C16_Step ==
    /\ store' # store =>
         /\ pc = "upsert"
         /\ store' = store \cup VectorsAt(batch_start + 1, batch_start + BatchSize)
         /\ Cardinality(store') - Cardinality(store) \in 1..BatchSize
         /\ batch_start' = batch_start + BatchSize
    /\ (pc = "upsert" /\ pc' = "failed") =>
         /\ store' = store
         /\ batch_start' = batch_start
         /\ raised' = UploadFailed
    /\ pc = "failed" => store' = store

\* C16: the vectors are upserted in consecutive batches of at most 100, in
\* order; when the upsert of a batch fails the upload fails, the index holds
\* exactly the vectors of the batches before it and no later batch is issued.
C16_BatchesInOrderNoRollback == []C16_State /\ [][C16_Step]_vars

\* the second batch failed after the first was committed
C16_Witness ==
    /\ pc = "failed"
    /\ raised = UploadFailed
    /\ Len(vectors_to_upsert) > BatchSize
    /\ batch_start = BatchSize
    /\ Cardinality(store) = BatchSize

\* upload_clauses_to_pinecone has run its loop over the clauses
Embedded ==
    \/ pc \in {"upsert", "gather", "answering", "complete"}
    \/ pc = "failed" /\ raised = UploadFailed

EmbeddedPositions == (1..Len(clauses)) \ embed_failed

\* the position in vectors_to_upsert of the clause at position k
VectorPosition(k) == k - Cardinality({j \in embed_failed : j < k})

\* C17: a passage whose embedding failed is skipped and nothing is upserted for
\* it, every passage whose embedding succeeded has its vector in the upload
\* (and in the index once the upload succeeded), no uploaded vector carries a
\* failure value, and the embedding loop fails the request only when no
\* passage at all was embedded.
C17_FailedEmbeddingSkipped ==
    Embedded =>
        /\ Len(vectors_to_upsert) = Cardinality(EmbeddedPositions)
        /\ \A k \in EmbeddedPositions :
             LET v == vectors_to_upsert[VectorPosition(k)]
             IN /\ v.id = clauses[k].id
                /\ v.metadata.content = clauses[k].content
                /\ v.values = [none |-> FALSE, task_type |-> "retrieval_document",
                               of |-> clauses[k].id]
        /\ \A v \in store : ~v.values.none
        /\ \A k \in embed_failed : \A v \in store : v.id # clauses[k].id
        /\ pc \in {"gather", "answering", "complete"} =>
             \A k \in EmbeddedPositions : \E v \in store : v.id = clauses[k].id
        /\ (pc = "failed" /\ "upsert" \notin effects) => EmbeddedPositions = {}
        /\ EmbeddedPositions = {} => pc = "failed"

\* one passage of two failed to embed, the other was upserted and the request
\* went on to answer
C17_Witness ==
    /\ pc = "complete"
    /\ Len(clauses) = 2
    /\ embed_failed = {1}
    /\ Cardinality(store) = 1
    /\ status = 200

(***************************************************************************)
(* Properties of retrieval (Spec)                                          *)
(***************************************************************************)
Synthesizing == \E t \in DOMAIN task : task[t] = "generate"

\* C20: the content handed to generate_answer for a match is the content the
\* passage of that id was upserted with, which is the content the chunker
\* gave it.
C20_IndexRoundTrip ==
    Synthesizing =>
        \A k \in 1..Len(relevant_clauses) :
            LET id == relevant_clauses[k].clause_id
                given == ClausesContext(relevant_clauses)[k]
            IN /\ \E j \in 1..Len(clauses) :
                    clauses[j].id = id /\ clauses[j].content = given
               /\ \E j \in 1..Len(vectors_to_upsert) :
                    /\ vectors_to_upsert[j].id = id
                    /\ vectors_to_upsert[j].metadata.content = given
               /\ given # <<>>

\* a query returned two passages of different contents
C20_Witness ==
    /\ Synthesizing
    /\ Len(relevant_clauses) = 2
    /\ relevant_clauses[1].content # relevant_clauses[2].content
    /\ relevant_clauses[1].clause_id # relevant_clauses[2].clause_id

(***************************************************************************)
(* Progress of a request (FairSpec)                                        *)
(***************************************************************************)
C18_Step ==
    /\ pc = "answering" => pc' \in {"answering", "complete"}
    /\ Terminal => pc' = pc

\* C18: when every external call returns or raises, the request reaches a
\* terminal state, COMPLETE or FAILED, and stays in it; a request that is
\* ANSWERING moves to no state but COMPLETE, whatever the outcome of the
\* embedding, the query and the synthesis of each question.  A request that
\* is ANSWERING therefore reaches COMPLETE: it reaches a terminal state, it
\* was in none before, and the only one it can move to is COMPLETE.
C18_ReachesOneTerminalState == <>Terminal /\ [][C18_Step]_vars

\* a request completed although a question failed at each of the three calls
C18_Witness ==
    /\ pc = "complete"
    /\ \E t \in Questions : result[t] = OnQuestionError(t, "embed")
    /\ \E t \in Questions : result[t] = OnQuestionError(t, "query")
    /\ \E t \in Questions : result[t] = OnQuestionError(t, "generate")
    /\ \E t \in Questions : result[t].kind = "answer"

(***************************************************************************)
(* Properties of the service over several requests (SpecService)           *)
(***************************************************************************)
\* v is a vector this request built from its own document
OwnVector(v) == \E j \in 1..Len(vectors_to_upsert) : vectors_to_upsert[j] = v

\* C11: every passage retrieved for a question of a request was produced by
\* chunking that request's document, and once the indexing run of a request
\* has completed the index holds, under the request's document name, no
\* passage of a document indexed before.
C11_NoCrossDocumentLeakage ==
    /\ Synthesizing =>
         \A k \in 1..Len(relevant_clauses) :
            \E j \in 1..Len(clauses) :
                /\ clauses[j].id = relevant_clauses[k].clause_id
                /\ clauses[j].content = relevant_clauses[k].content
    /\ pc \in {"gather", "answering", "complete"} =>
         \A v \in store : v.metadata.document = document_name => OwnVector(v)

ParserFailed(outcome) == outcome \in {"empty", "raised"}

NoTextError == ValueError("Could not extract text from PDF")

\* C13: when neither parser extracts the text, or the upload to the index
\* fails, the request ends with HTTP 500 and a message, and none of its
\* questions is embedded, queried or answered.
C13_ExtractionOrUploadFailureIs500 ==
    /\ (ParserFailed(primary) /\ ParserFailed(fallback)) =>
         /\ pc = "failed"
         /\ status = 500
         /\ detail = [prefix |-> "Error processing request: ", exception |-> NoTextError]
         /\ effects \cap QuestionEffects = {}
         /\ task = <<>>
    /\ raised = UploadFailed =>
         /\ pc = "failed"
         /\ status = 500
         /\ detail = [prefix |-> "Error processing request: ", exception |-> UploadFailed]
         /\ effects \cap QuestionEffects = {}
         /\ task = <<>>

\* C14: the primary parser runs first; the fallback parser runs exactly when
\* the primary parser raised or gave no text; when both raise, or both give
\* no text, the function raises the extraction error and returns no text.
C14_FallbackThenExtractionError ==
    /\ fallback # "not_run" => ParserFailed(primary)
    /\ (ParserFailed(primary) /\ pc # "fallback") => fallback # "not_run"
    /\ (primary = fallback /\ ParserFailed(primary)) =>
         /\ pc = "failed"
         /\ raised = NoTextError
         /\ text = <<>>

\* C15: once extract_text_from_pdf_url has returned or raised, the temporary
\* file does not exist.
C15_TempFileReleased == temp_file => pc \in {"primary", "fallback"}

\* C19: without GEMINI_API_KEY the flag stays false, every request fails with
\* HTTP 500 at configure_gemini, and no request initialises the vector index,
\* downloads, extracts or upserts anything.
C19_MissingKeyFailsFast ==
    ~gemini_key =>
        /\ ~gemini_configured
        /\ pinecone_service = "None"
        /\ effects = {}
        /\ store = {}
        /\ ~temp_file
        /\ pc \in {"idle", "configure", "failed"}
        /\ pc = "failed" =>
             /\ status = 500
             /\ raised = ValueError("GEMINI_API_KEY not found")
             /\ detail.prefix = "Error processing request: "

\* the second request of a process without the key has failed like the first
C19_Witness ==
    /\ ~gemini_key
    /\ requests = 2
    /\ pc = "failed"
    /\ status = 500

(***************************************************************************)
(* Properties of the question tasks (Spec, FairSpec)                       *)
(***************************************************************************)
\* the questions run one after the other: a task that has started keeps the
\* event loop until it returns
OneQuestionAtATime == Cardinality(InFlight) <= 1

\* C21: the embedding, query and generation calls of a question are
\* suspension points: while a question is in flight at one of them and a slot
\* is free, the next question that is ready can start.
C21_CallsAreSuspensionPoints ==
    \A t, u \in DOMAIN task :
        (task[t] \in InFlightStates /\ task[u] = "ready" /\ FirstReady(u)
            /\ semaphore > 0)
        => ENABLED Enter(u)

(***************************************************************************)
(* Properties of the download (Spec)                                       *)
(***************************************************************************)
\* C22 as stated: a fetch that ends with a non-2xx status (raise_for_status
\* raises HTTPError) ends the request with HTTP 500 and a message.
C22_BadStatusIs500 ==
    raised.type = "HTTPError" =>
        /\ pc = "failed"
        /\ status = 500
        /\ detail.prefix # ""

\* C22, amended: a fetch that ends with a non-2xx status ends the request
\* with HTTP 400 and the download message, like a network-level error, and
\* nothing is extracted, chunked, embedded, upserted or asked.
C22_BadStatusIs400 ==
    raised.type = "HTTPError" =>
        /\ pc = "failed"
        /\ status = 400
        /\ detail = [prefix |-> "Failed to download document: ",
                     exception |-> RequestsError("HTTPError")]
        /\ effects \cap (DocumentEffects \cup QuestionEffects) = {}
        /\ store = {} /\ task = <<>> /\ answers = <<>>

\* the fetch was made and raise_for_status raised
C22_Witness ==
    /\ pc = "failed"
    /\ effects = {"download"}
    /\ raised = RequestsError("HTTPError")

(***************************************************************************)
(* clean_pdf_text on its own: every text of at most MaxCleanAtoms atoms is *)
(* cleaned, and the result is cleaned once more.  extracted is the text    *)
(* given to the function, text what it returns.                            *)
(***************************************************************************)
CleanAtoms == {NL, SP, Letters(3), Cap, Dot, PageMarker}

CleanTexts == UNION {[1..k -> CleanAtoms] : k \in 0..MaxCleanAtoms}

InitClean ==
    /\ gemini_key = TRUE
    /\ gemini_configured = FALSE
    /\ pinecone_service = "None"
    /\ store = {}
    /\ pc = "clean_input"
    /\ questions = 0
    /\ document_name = ""
    /\ text = <<>>
    /\ clauses = <<>>
    /\ vectors_to_upsert = <<>>
    /\ batch_start = 0
    /\ semaphore = 0
    /\ task = <<>>
    /\ running = 0
    /\ relevant_clauses = <<>>
    /\ result = <<>>
    /\ answers = <<>>
    /\ raised = NoException
    /\ status = 0
    /\ effects = {}
    /\ detail = NoDetail
    /\ embed_failed = {}
    /\ requests = 0
    /\ pdf = <<>>
    /\ temp_file = FALSE
    /\ extracted \in CleanTexts
    /\ primary = "not_run"
    /\ fallback = "not_run"

\* text = clean_pdf_text(text)
ApplyCleaner ==
    /\ pc = "clean_input"
    /\ text' = clean_pdf_text(extracted)
    /\ pc' = "clean_output"
    /\ UNCHANGED <<globals, questions, document_name, clauses, vectors_to_upsert,
                   batch_start, taskLocals, answers, raised, status, detail,
                   effects, embed_failed, requests, extractLocals>>

\* the cleaner applied to its own output
ApplyCleanerAgain ==
    /\ pc = "clean_output"
    /\ extracted' = text
    /\ text' = clean_pdf_text(text)
    /\ pc' = "clean_twice"
    /\ UNCHANGED <<globals, questions, document_name, clauses, vectors_to_upsert,
                   batch_start, taskLocals, answers, raised, status, detail,
                   effects, embed_failed, requests, pdf, temp_file, primary,
                   fallback>>

NextClean == ApplyCleaner \/ ApplyCleanerAgain

SpecClean == InitClean /\ [][NextClean]_vars

(***************************************************************************)
(* Properties of clean_pdf_text (SpecClean)                                *)
(***************************************************************************)
Cleaned == pc = "clean_output"

HasText(s) == \E k \in 1..Len(s) : ~IsSpace(s[k])

\* s[i..j] is a whole run of whitespace that holds at least one blank line
BlankLines(s, i, j) ==
    /\ 1 < i /\ i <= j /\ j < Len(s)
    /\ \A k \in i..j : IsSpace(s[k])
    /\ ~IsSpace(s[i - 1]) /\ ~IsSpace(s[j + 1])
    /\ Cardinality({k \in i..j : s[k].cls = "nl"}) >= 2

\* C23: when blank lines separate two paragraphs of the input, the output is
\* the cleaned first paragraph, one paragraph break, and the cleaned second
\* paragraph, so that split_text_into_clauses finds the break between them.
C23_BlankLinesBecomeOneBreak ==
    Cleaned =>
        \A i, j \in 1..Len(extracted) :
            BlankLines(extracted, i, j) =>
                LET before == SubSeq(extracted, 1, i - 1)
                    after == SubSeq(extracted, j + 1, Len(extracted))
                IN /\ text = clean_pdf_text(before) \o <<NL, NL>> \o clean_pdf_text(after)
                   /\ Len(Paragraphs(text)) >= 2

CleanedTwice == pc = "clean_twice"

\* the number of non-whitespace characters of s
RECURSIVE NonWsCount(_)
NonWsCount(s) ==
    IF s = <<>> THEN 0
    ELSE (IF IsSpace(Head(s)) THEN 0 ELSE Head(s).n) + NonWsCount(Tail(s))

\* C24: cleaning the output of clean_pdf_text once more does not reduce its
\* number of non-whitespace characters.
C24_SecondCleanKeepsText ==
    CleanedTwice => NonWsCount(text) >= NonWsCount(extracted)

\* a cleaned text that still holds a page header (it was not followed by a
\* newline) and a paragraph break, cleaned again
C24_Witness ==
    /\ CleanedTwice
    /\ \E k \in 1..Len(extracted) : extracted[k].cls = "marker"
    /\ \E k \in 1..Len(extracted) : extracted[k].cls = "nl"
    /\ NonWsCount(text) = NonWsCount(extracted)

(***************************************************************************)
(* Properties of one question (Spec)                                       *)
(***************************************************************************)
\* the ids of the matches, in the order the index returned them
MatchIds(matches) == [k \in 1..Len(matches) |-> matches[k].id]

C25_State ==
    /\ \A t \in DOMAIN result :
         /\ result[t].kind = "no_information" => result[t] = NoInformation(t)
         /\ result[t].kind = "answer" => Len(result[t].context) \in 1..TopK
    /\ Synthesizing =>
         /\ Len(relevant_clauses) \in 1..TopK
         /\ \E matches \in QueryResults(store, document_name) :
                [k \in 1..Len(relevant_clauses) |-> relevant_clauses[k].clause_id]
                    = MatchIds(matches)

C25_Step ==
    \A t \in DOMAIN result :
        /\ (t \in DOMAIN result' /\ result[t] = NoResult
                /\ result'[t].kind = "no_information") =>
             /\ task[t] = "query"
             /\ task'[t] = "done"
             /\ effects' \ effects \subseteq {"query"}
        /\ (t \in DOMAIN result' /\ result[t] = NoResult
                /\ result'[t].kind = "answer") =>
             /\ task[t] = "generate"
             /\ result'[t].context =
                    [k \in 1..Len(relevant_clauses) |-> relevant_clauses[k].clause_id]
        /\ (t \in DOMAIN task' /\ task[t] = "done") => task'[t] = "done"

\* C25: a question whose query returns no match is answered with the fixed
\* string straight from the query step, without a call of generate_answer;
\* a question whose query returns matches hands them to generate_answer in
\* the order of the index, 8 at most.
C25_NoMatchOrTopEight == []C25_State /\ [][C25_Step]_vars

\* one question found nothing, another was answered from 8 passages
C25_Witness ==
    /\ pc = "complete"
    /\ \E t \in Questions : answers[t] = NoInformation(t)
    /\ \E t \in Questions :
         answers[t].kind = "answer" /\ Len(answers[t].context) = TopK
    /\ Len(vectors_to_upsert) > TopK

(***************************************************************************)
(* One extraction method per returned text                                 *)
(***************************************************************************)
\* what one parser appended to the local text in a step
AppendedBy(before, after) == SubSeq(after, Len(before) + 1, Len(after))

ExtractionReturns == pc \in {"primary", "fallback"} /\ pc' = "chunk"

\* C26: the text extract_text_from_pdf_url returns is the cleaned text that
\* the parser which ran last appended, and nothing else: text appended by a
\* primary parser that raised is neither returned with the fallback
\* parser's text nor returned alone when the fallback parser appends none.
C26_Step ==
    ExtractionReturns =>
        text' = clean_pdf_text(AppendedBy(extracted, extracted'))

C26_OneMethodOnly == [][C26_Step]_vars

(***************************************************************************)
(* Lazily initialised handles                                              *)
(***************************************************************************)
\* C27: over any sequence of requests _pinecone_service changes only in a
\* call of get_pinecone_service that finds it None; afterwards every call
\* leaves it as it is and returns the client after a success and None, so
\* that the request fails, after a failure; _gemini_configured changes only in
\* configure_gemini with a key present, from false to true, so at most once.
C27_Step ==
    /\ pinecone_service' # pinecone_service =>
         pc = "pinecone" /\ pinecone_service = "None"
    /\ (pc = "pinecone" /\ pinecone_service = "Index") => pc' = "download"
    /\ (pc = "pinecone" /\ pinecone_service = "False") =>
         /\ pc' = "failed"
         /\ raised' = PineconeUnavailable
    /\ gemini_configured' # gemini_configured =>
         /\ pc = "configure"
         /\ gemini_key
         /\ ~gemini_configured
         /\ gemini_configured'
    /\ gemini_key' = gemini_key

C27_HandlesSetAtMostOnce == [][C27_Step]_vars

C27_Witness ==
    /\ requests >= 2
    /\ gemini_configured
    /\ pinecone_service = "False"
    /\ pc = "failed"
    /\ raised = PineconeUnavailable

(***************************************************************************)
(* The concurrency slots (FairSpec)                                        *)
(***************************************************************************)
AllQuestionsDone ==
    /\ DOMAIN task = Questions
    /\ \A t \in Questions : task[t] = "done" /\ result[t] # NoResult

FailedBeforeGather == pc = "failed" /\ task = <<>>

C28_State ==
    /\ semaphore \in 0..SemaphoreLimit
    /\ pc = "answering" => semaphore = SemaphoreLimit - Cardinality(InFlight)
    /\ pc = "complete" => AllQuestionsDone /\ semaphore = SemaphoreLimit

\* a question takes a slot when it starts and gives it back when it ends,
\* with an answer or with an error
C28_Step ==
    \A t \in DOMAIN task :
        /\ (t \in DOMAIN task' /\ task[t] \in {"ready", "waiting"}
              /\ task'[t] \in InFlightStates) =>
             semaphore > 0 /\ semaphore' = semaphore - 1
        /\ (t \in DOMAIN task' /\ task[t] \in InFlightStates /\ task'[t] = "done") =>
             semaphore' = semaphore + 1
        /\ (t \in DOMAIN task' /\ task[t] \in {"ready", "waiting"}) =>
             task'[t] # "done"

\* C28: for any number of questions, more than SemaphoreLimit included, a
\* request that reaches the gather ends with every question processed and
\* every slot free, whether the questions were answered or failed; the number
\* of free slots stays within 0..SemaphoreLimit, a question takes one slot to
\* start and returns it when it ends, and no question ends without a slot.
C28_EveryQuestionGetsASlot ==
    /\ <>(FailedBeforeGather \/ (pc = "complete" /\ AllQuestionsDone
                                   /\ semaphore = SemaphoreLimit))
    /\ []C28_State
    /\ [][C28_Step]_vars

\* more questions than slots, all of them processed, one of which failed
C28_Witness ==
    /\ pc = "complete"
    /\ questions > SemaphoreLimit
    /\ AllQuestionsDone
    /\ semaphore = SemaphoreLimit
    /\ \E t \in Questions : result[t].kind = "error"
    /\ \E t \in Questions : result[t].kind = "answer"

====
